---- MODULE Spec2Model ----
(***************************************************************************)
(* A model of src/script.py: the arXiv LaTeX translator.                   *)
(*                                                                         *)
(*   SpecChunker  chunk_lines_safely as a pure function                    *)
(*   Spec         process_and_translate_tex_files: discovery, the thread   *)
(*                pool running translate_chunk / translate_text, and the   *)
(*                reassembly of the translated chunks                      *)
(*   SpecGuard    remove_latex_commands and the join of the response lines *)
(*   SpecMain     find_main_tex_file over the files of a directory walk    *)
(*   SpecDriver   download_arxiv_intro_and_tex, compile_main_tex and       *)
(*                compile_tex_to_pdf: the stages of a run and its errors   *)
(*                                                                         *)
(* A string is a sequence of tokens, ''.join is concatenation.             *)
(***************************************************************************)
EXTENDS Integers, Sequences, FiniteSets, TLC

VARIABLES
    \* chunk_lines_safely(lines, lines_per_chunk) -> chunks
    cl_lines, cl_lines_per_chunk, cl_chunks, cl_pc,
    \* process_and_translate_tex_files
    pc,                \* where the main thread is
    files,             \* the text at each document's path
    originals,         \* the "<path>_original" snapshot of each document
    walked,            \* the documents os.walk has visited
    read_lines,        \* the chunk size
    file_line_chunks,  \* the job pool: (file_path, idx, chunk)
    total_chunks,
    completed_chunks,  \* the shared progress counter
    jobs,              \* each job's position in translate_chunk, its locals
    out_of_order,      \* the documents a later chunk of which finished first
    file_contents,     \* the dict of reassembly, in insertion order
    write_idx,         \* the next entry of file_contents to write
    rewritten,         \* the documents reassembly has written
    max_parallel_tasks, \* the width of the pool
    tree,              \* the file names os.walk lists
    sources,           \* the text at each document's path when the run began
    io_errors,         \* the documents for which line 228 logged an error
    writes,            \* how often each document's path was opened to write
    \* remove_latex_commands(text) and the join of the response's lines
    g_text, g_cleaned, g_restored, g_pc,
    \* find_main_tex_file(directory) -> the file returned
    fm_walk, fm_result, fm_pc,
    \* download_arxiv_intro_and_tex, compile_main_tex, compile_tex_to_pdf
    run_pc,            \* where the run is
    entry_point,       \* the function that was called
    directory,         \* the files os.walk lists when the main file is sought
    main_tex_path,     \* the position of the main file in it, 0 for None
    compile_twice,
    stages,            \* the stages gone through, in order
    result,            \* the exit status of the last pass, and whether the
                       \* expected output file exists after it
    final_pdf,         \* the artifact is at its final name
    logged             \* the errors logged

chunkVars == <<cl_lines, cl_lines_per_chunk, cl_chunks, cl_pc>>

pipeVars == <<pc, files, originals, walked, read_lines, file_line_chunks,
              total_chunks, completed_chunks, jobs, out_of_order,
              file_contents, write_idx, rewritten, max_parallel_tasks,
              tree, sources, io_errors, writes>>

guardVars == <<g_text, g_cleaned, g_restored, g_pc>>

mainVars == <<fm_walk, fm_result, fm_pc>>

driverVars == <<run_pc, entry_point, directory, main_tex_path, compile_twice,
                stages, result, final_pdf, logged>>

vars == <<chunkVars, pipeVars, guardVars, mainVars, driverVars>>

----------------------------------------------------------------------------
(* Bounds of the model *)

\* longest line list handed to chunk_lines_safely in SpecChunker
MaxChunkerLines == 5
\* largest lines_per_chunk tried in SpecChunker
MaxChunkerK == 3

\* the values a line can have in SpecChunker (two, so that a swap shows)
ChunkerLineVals == {"x", "y"}

----------------------------------------------------------------------------
(* Helpers on sequences *)

SeqsUpTo(S, n) == UNION {[1..k -> S] : k \in 0..n}

RECURSIVE Flatten(_)
\* ''.join(seq of strings) and the concatenation of a list of lists
Flatten(ss) == IF ss = <<>> THEN <<>> ELSE Head(ss) \o Flatten(Tail(ss))

----------------------------------------------------------------------------
(* chunk_lines_safely, src/script.py:275-306 *)

ChunkFullOffByOne(current_line_count, lines_per_chunk) ==
    current_line_count > lines_per_chunk

\* line 297: the chunk is closed once the count reaches lines_per_chunk
ChunkFull(current_line_count, lines_per_chunk) ==
    current_line_count >= lines_per_chunk

FlushRemainderDropped(chunks, current_chunk) == chunks

\* lines 303-304: a non-empty remainder becomes the last chunk
FlushRemainder(chunks, current_chunk) ==
    IF current_chunk # <<>> THEN Append(chunks, current_chunk) ELSE chunks

RECURSIVE ChunkLoop(_, _, _, _, _)
\* lines 291-300: the for loop, from the i-th line on
ChunkLoop(lines, lines_per_chunk, chunks, current_chunk, current_line_count) ==
    IF lines = <<>>
    THEN FlushRemainder(chunks, current_chunk)
    ELSE LET appended == Append(current_chunk, Head(lines))
             count    == current_line_count + 1
         IN  IF ChunkFull(count, lines_per_chunk)
             THEN ChunkLoop(Tail(lines), lines_per_chunk,
                            Append(chunks, appended), <<>>, 0)
             ELSE ChunkLoop(Tail(lines), lines_per_chunk,
                            chunks, appended, count)

chunk_lines_safely(lines, lines_per_chunk) ==
    ChunkLoop(lines, lines_per_chunk, <<>>, <<>>, 0)

PipeIdle ==
    /\ pc = "idle"
    /\ files = <<>>
    /\ originals = <<>>
    /\ walked = {}
    /\ read_lines = 0
    /\ file_line_chunks = <<>>
    /\ total_chunks = 0
    /\ completed_chunks = 0
    /\ jobs = <<>>
    /\ out_of_order = {}
    /\ file_contents = <<>>
    /\ write_idx = 0
    /\ rewritten = {}
    /\ max_parallel_tasks = 0
    /\ tree = {}
    /\ sources = <<>>
    /\ io_errors = {}
    /\ writes = <<>>

GuardIdle ==
    /\ g_text = <<>>
    /\ g_cleaned = <<>>
    /\ g_restored = <<>>
    /\ g_pc = "idle"

MainIdle ==
    /\ fm_walk = <<>>
    /\ fm_result = 0
    /\ fm_pc = "idle"

DriverIdle ==
    /\ run_pc = "idle"
    /\ entry_point = "none"
    /\ directory = <<>>
    /\ main_tex_path = 0
    /\ compile_twice = TRUE
    /\ stages = <<>>
    /\ result = [returncode |-> 0, pdf |-> FALSE]
    /\ final_pdf = FALSE
    /\ logged = {}

ChunkerInit ==
    /\ PipeIdle
    /\ GuardIdle
    /\ MainIdle
    /\ DriverIdle
    /\ cl_lines \in SeqsUpTo(ChunkerLineVals, MaxChunkerLines)
    /\ cl_lines_per_chunk \in 1..MaxChunkerK
    /\ cl_chunks = <<>>
    /\ cl_pc = "call"

ChunkerCall ==
    /\ cl_pc = "call"
    /\ cl_chunks' = chunk_lines_safely(cl_lines, cl_lines_per_chunk)
    /\ cl_pc' = "returned"
    /\ UNCHANGED <<cl_lines, cl_lines_per_chunk>>
    /\ UNCHANGED <<pipeVars, guardVars, mainVars, driverVars>>

ChunkerNext == ChunkerCall

SpecChunker == ChunkerInit /\ [][ChunkerNext]_vars

CeilDiv(n, k) == (n + k - 1) \div k

----------------------------------------------------------------------------
(* Texts: a character is a pair, a string a sequence of characters, a list *)
(* of lines a sequence of strings.                                         *)

NL == <<"nl", 0>>

\* the documents of the extracted tree that end in ".tex" (line 204)
Docs == {"a.tex", "b.tex"}

\* the snapshot of a.tex, when the tree holds a file of that name already
SnapshotName == "a.tex_original"

\* what that file holds before the run
StaleText == << <<"stale", 0>>, NL >>

\* the listings of os.walk tried (line 202): any of the documents, and a
\* file that has the name of a snapshot with a.tex or alone
Walks == (SUBSET Docs) \cup {{"a.tex", SnapshotName}, {SnapshotName}}

\* line 204, file.endswith(".tex"), on the names of the walks
EndsWithTex(file) == file \in {"a.tex", "b.tex"}

\* the files of a walk the loop of lines 202-228 takes up
Eligible(walk) == {file \in walk : EndsWithTex(file)}

\* most lines a document holds
MaxDocLines == 2
\* largest read_lines (chunk size) of a run
MaxReadLines == 2
\* most lines in one response of the transformer
MaxRespLines == 2

\* a.tex holds up to MaxDocLines lines, b.tex at most one
DocSizes(d) == IF d = "a.tex" THEN 0..MaxDocLines ELSE 0..1

\* the i-th line of document d; the last line of b.tex has no line end
DocLine(d, i, n) ==
    IF d = "b.tex" /\ i = n THEN << <<d, i>> >> ELSE << <<d, i>>, NL >>

DocText(d, n) == Flatten([i \in 1..n |-> DocLine(d, i, n)])

RECURSIVE SplitLoop(_, _, _)
SplitLoop(text, current, acc) ==
    IF text = <<>>
    THEN IF current # <<>> THEN Append(acc, current) ELSE acc
    ELSE IF Head(text) = NL
         THEN SplitLoop(Tail(text), <<>>, Append(acc, Append(current, NL)))
         ELSE SplitLoop(Tail(text), Append(current, Head(text)), acc)

\* f.readlines(), line 210: the text cut after each line end
readlines(text) == SplitLoop(text, <<>>, <<>>)

\* f.writelines(lines), lines 214 and 225
writelines(lines) == Flatten(lines)

NoFile == [exists |-> FALSE, text |-> <<>>]
FileOf(text) == [exists |-> TRUE, text |-> text]

----------------------------------------------------------------------------
(* process_and_translate_tex_files: discovery, src/script.py:198-232 *)

\* lines 219-220: the jobs of one document, in chunk order
JobsOf(file_path, chunks) ==
    [i \in 1..Len(chunks) |->
        [file_path |-> file_path, idx |-> i - 1, chunk |-> chunks[i]]]

\* what can happen to one file of the walk (lines 208-228): nothing, or
\* an error raised by the read, by the open or the write of the snapshot,
\* or by the open of line 224
DiscoverOutcomes ==
    {"ok", "read_error", "snapshot_open_error", "snapshot_write_error",
     "writeback_open_error"}

SnapshotWrittenAlways(outcome) == TRUE

\* lines 209-214 ended without raising, so that lines 217-225 are run
SnapshotWritten(outcome) == outcome \in {"ok", "writeback_open_error"}

\* lines 204-228: one eligible file of the walk
Discover(d, outcome) ==
    /\ pc = "walk"
    /\ d \in tree
    /\ EndsWithTex(d)
    /\ d \notin walked
    /\ walked' = walked \cup {d}
    /\ LET lines  == readlines(files[d])
           chunks == chunk_lines_safely(lines, read_lines)
           pooled == SnapshotWritten(outcome)
       IN  /\ originals' =
                 IF outcome \in {"read_error", "snapshot_open_error"}
                 THEN originals
                 ELSE IF outcome = "snapshot_write_error"
                      THEN [originals EXCEPT ![d] = FileOf(<<>>)]
                      ELSE [originals EXCEPT ![d] = FileOf(writelines(lines))]
           /\ file_line_chunks' =
                 IF pooled THEN file_line_chunks \o JobsOf(d, chunks)
                 ELSE file_line_chunks
           /\ total_chunks' =
                 IF pooled THEN total_chunks + Len(chunks) ELSE total_chunks
           /\ files' =
                 IF outcome = "ok"
                 THEN [files EXCEPT ![d] = writelines(lines)]
                 ELSE files
           \* line 224: open(file_path, 'w') went through
           /\ writes' =
                 IF outcome = "ok" THEN [writes EXCEPT ![d] = @ + 1]
                 ELSE writes
    \* line 228
    /\ io_errors' = IF outcome = "ok" THEN io_errors ELSE io_errors \cup {d}
    /\ UNCHANGED <<pc, read_lines, completed_chunks, jobs, out_of_order,
                   file_contents, write_idx, rewritten, max_parallel_tasks,
                   tree, sources>>

----------------------------------------------------------------------------
(* translate_text, src/script.py:33-132 *)

retry_attempts == 3

\* what makes the try body raise: the remote call (line 44), json.loads
\* (line 117), the lookup of ["translate"]["lines"] (line 118)
ErrorKinds == {"service_error", "malformed_json", "shape_mismatch"}

\* the renderings the transformer may give of a line
Renderings == {1, 2}

\* the i-th line of a response in rendering v: any string, with a line end
\* or without
TransLine(v, i) ==
    IF v = 1 THEN << <<"tr", i>>, NL >> ELSE << <<"tr", 10 + i>> >>

\* a response: an error, or some number of lines
Responses ==
    [kind : ErrorKinds, lines : {<<>>}]
    \cup [kind : {"lines"},
          lines : {[i \in 1..n |-> TransLine(v, i)] :
                      n \in 0..MaxRespLines, v \in Renderings}]

LineCountUnchecked(translation_lines, chunk_size) == FALSE

\* line 121
LineCountMismatch(translation_lines, chunk_size) ==
    Len(translation_lines) # chunk_size

LastAttemptNever(attempt) == FALSE

\* line 129
LastAttempt(attempt) == attempt = retry_attempts - 1

\* line 42: range(retry_attempts) has no element `attempt`
RangeExhausted(attempt) == attempt >= retry_attempts

\* lines 42-132: the iteration `attempt` of the loop on one response; it
\* returns the joined lines, raises, or goes on to iteration attempt + 1;
\* slept tells whether time.sleep (line 122) ran
TranslateStep(attempt, chunk_size, response) ==
    IF response.kind \in ErrorKinds
    THEN \* lines 127-130
         IF LastAttempt(attempt)
         THEN [next |-> "raise", lines |-> <<>>, slept |-> FALSE]
         ELSE [next |-> "retry", lines |-> <<>>, slept |-> FALSE]
    ELSE IF LineCountMismatch(response.lines, chunk_size)
         THEN \* lines 121-123, and line 132 once the range is exhausted
              IF RangeExhausted(attempt + 1)
              THEN [next |-> "raise", lines |-> <<>>, slept |-> TRUE]
              ELSE [next |-> "retry", lines |-> <<>>, slept |-> TRUE]
         ELSE \* line 125
              [next |-> "return", lines |-> response.lines, slept |-> FALSE]

----------------------------------------------------------------------------
(* translate_chunk and the pool, src/script.py:234-254 *)

\* the widths of the pool tried (max_parallel_tasks, line 194): one worker,
\* and two, which run concurrently
PoolWidths == {1, 2}

FallbackEmpty(chunk) == <<>>

\* line 246: the original text of the chunk
FallbackText(chunk) == Flatten(chunk)

ExceptionEscapes == FALSE

\* line 244: `except Exception` catches whatever translate_text raises
ExceptionCaught == TRUE

\* a job: where its worker is in translate_chunk (st), the locals of
\* translate_text (attempt, and the counts of remote calls made, of failed
\* attempts and of time.sleep calls), whether translate_text returned (ok)
\* and the lines it joined, translated_text (text), and the value read
\* from the shared counter (reg)
QueuedJob ==
    [st |-> "queued", attempt |-> 0, calls |-> 0, fails |-> 0, sleeps |-> 0,
     ok |-> FALSE, lines |-> <<>>, text |-> <<>>, reg |-> 0]

JobIds == DOMAIN jobs

Running == {j \in JobIds : jobs[j].st \notin {"queued", "done", "raised"}}

NothingToTranslateNever(total) == FALSE

\* line 230
NothingToTranslate(total) == total = 0

\* lines 230-234 and 253-254: return when there is nothing to translate,
\* else hand every job to the pool
Dispatch ==
    /\ pc = "walk"
    /\ walked = Eligible(tree)
    /\ IF NothingToTranslate(total_chunks)
       THEN /\ pc' = "done"
            /\ UNCHANGED <<completed_chunks, jobs>>
       ELSE /\ pc' = "pool"
            /\ completed_chunks' = 0
            /\ jobs' = [j \in 1..Len(file_line_chunks) |-> QueuedJob]
    /\ UNCHANGED <<files, originals, walked, read_lines, file_line_chunks,
                   total_chunks, out_of_order, file_contents, write_idx,
                   rewritten, max_parallel_tasks,
                   tree, sources, io_errors, writes>>

\* a free worker of the pool takes the next job of the queue
StartJob(j) ==
    /\ pc = "pool"
    /\ jobs[j].st = "queued"
    /\ \A k \in JobIds : k < j => jobs[k].st # "queued"
    /\ Cardinality(Running) < max_parallel_tasks
    /\ jobs' = [jobs EXCEPT ![j].st = "translate"]
    /\ UNCHANGED <<pc, files, originals, walked, read_lines, file_line_chunks,
                   total_chunks, completed_chunks, out_of_order,
                   file_contents, write_idx, rewritten, max_parallel_tasks,
                   tree, sources, io_errors, writes>>

\* lines 240-246 with one iteration of translate_text's loop: the remote
\* call and what the code does with its response
Attempt(j, response) ==
    /\ pc = "pool"
    /\ jobs[j].st = "translate"
    /\ LET chunk == file_line_chunks[j].chunk
           job   == jobs[j]
           step  == TranslateStep(job.attempt, Len(chunk), response)
           made  == [job EXCEPT !.calls = @ + 1,
                                !.sleeps = IF step.slept THEN @ + 1 ELSE @]
       IN  jobs' = [jobs EXCEPT ![j] =
              IF step.next = "return"
              THEN [made EXCEPT !.st = "load", !.ok = TRUE,
                                !.lines = step.lines,
                                !.text = Flatten(step.lines)]
              ELSE IF step.next = "raise"
                   THEN IF ExceptionCaught
                        THEN [made EXCEPT !.st = "load", !.fails = @ + 1,
                                          !.text = FallbackText(chunk)]
                        ELSE [made EXCEPT !.st = "raised", !.fails = @ + 1]
                   ELSE [made EXCEPT !.attempt = @ + 1, !.fails = @ + 1]]
    /\ UNCHANGED <<pc, files, originals, walked, read_lines, file_line_chunks,
                   total_chunks, completed_chunks, out_of_order,
                   file_contents, write_idx, rewritten, max_parallel_tasks,
                   tree, sources, io_errors, writes>>

\* line 248, completed_chunks += 1: the read of the shared counter;
\* translate_text has returned and its locals are gone
LoadCounter(j) ==
    /\ pc = "pool"
    /\ jobs[j].st = "load"
    /\ jobs' = [jobs EXCEPT ![j] =
                   [QueuedJob EXCEPT !.st = "store", !.ok = jobs[j].ok,
                                     !.lines = jobs[j].lines,
                                     !.text = jobs[j].text,
                                     !.reg = completed_chunks]]
    /\ UNCHANGED <<pc, files, originals, walked, read_lines, file_line_chunks,
                   total_chunks, completed_chunks, out_of_order,
                   file_contents, write_idx, rewritten, max_parallel_tasks,
                   tree, sources, io_errors, writes>>

\* line 248, completed_chunks += 1: the write of the shared counter, and
\* the return of line 251
StoreCounter(j) ==
    /\ pc = "pool"
    /\ jobs[j].st = "store"
    /\ completed_chunks' = jobs[j].reg + 1
    /\ jobs' = [jobs EXCEPT ![j] =
                   [QueuedJob EXCEPT !.st = "done", !.ok = jobs[j].ok,
                                     !.lines = jobs[j].lines,
                                     !.text = jobs[j].text]]
    /\ out_of_order' =
          IF \E k \in JobIds :
                /\ k < j
                /\ jobs[k].st # "done"
                /\ file_line_chunks[k].file_path = file_line_chunks[j].file_path
          THEN out_of_order \cup {file_line_chunks[j].file_path}
          ELSE out_of_order
    /\ UNCHANGED <<pc, files, originals, walked, read_lines, file_line_chunks,
                   total_chunks, file_contents, write_idx, rewritten,
                   max_parallel_tasks,
                   tree, sources, io_errors, writes>>

----------------------------------------------------------------------------
(* process_and_translate_tex_files: reassembly, src/script.py:254-272 *)

\* line 254: executor.map gives the results in the order of the jobs
translated_pairs ==
    [j \in JobIds |->
        [file_path |-> file_line_chunks[j].file_path,
         idx       |-> file_line_chunks[j].idx,
         text      |-> jobs[j].text]]

RECURSIVE GroupLoop(_, _)
\* lines 258-261: file_contents, a dict in insertion order
GroupLoop(pairs, contents) ==
    IF pairs = <<>> THEN contents
    ELSE LET p == Head(pairs)
             at == {i \in DOMAIN contents : contents[i].file_path = p.file_path}
             item == [idx |-> p.idx, text |-> p.text]
         IN  IF at = {}
             THEN GroupLoop(Tail(pairs),
                            Append(contents, [file_path |-> p.file_path,
                                              chunks |-> <<item>>]))
             ELSE LET i == CHOOSE i \in at : TRUE
                  IN  GroupLoop(Tail(pairs),
                         [contents EXCEPT ![i].chunks = Append(@, item)])

KeyBeforeDescending(a, b) == a.idx > b.idx

\* line 265, key=lambda x: x[0]: a goes before b
KeyBefore(a, b) == a.idx < b.idx

RECURSIVE Insert(_, _)
\* the place of x in a sorted list: after every element not after it (stable)
Insert(x, sortedSeq) ==
    IF sortedSeq = <<>> THEN <<x>>
    ELSE IF KeyBefore(x, Head(sortedSeq))
         THEN <<x>> \o sortedSeq
         ELSE <<Head(sortedSeq)>> \o Insert(x, Tail(sortedSeq))

RECURSIVE SortLoop(_, _)
SortLoop(chunks, acc) ==
    IF chunks = <<>> THEN acc
    ELSE SortLoop(Tail(chunks), Insert(Head(chunks), acc))

\* line 265: sorted(chunks, key=...)
sorted(chunks) == SortLoop(chunks, <<>>)

LastChunkOnly(chunks) == chunks[Len(chunks)].text

\* line 266
translated_content(chunks) ==
    LET sorted_chunks == sorted(chunks)
    IN  Flatten([i \in DOMAIN sorted_chunks |-> sorted_chunks[i].text])

\* lines 254-261: every job has ended; list(executor.map(...)) raises what
\* a job raised, else the results are grouped by file
Collect ==
    /\ pc = "pool"
    /\ \A j \in JobIds : jobs[j].st \in {"done", "raised"}
    /\ IF \E j \in JobIds : jobs[j].st = "raised"
       THEN /\ pc' = "raised"
            /\ UNCHANGED <<file_contents, write_idx>>
       ELSE /\ file_contents' = GroupLoop(translated_pairs, <<>>)
            /\ write_idx' = 1
            /\ pc' = "write"
    /\ UNCHANGED <<files, originals, walked, read_lines, file_line_chunks,
                   total_chunks, completed_chunks, jobs, out_of_order,
                   rewritten, max_parallel_tasks,
                   tree, sources, io_errors, writes>>

WriteOutcomes == {"ok", "open_error", "write_error"}

\* lines 263-272: one file of file_contents is written, or the error logged
WriteFile(outcome) ==
    /\ pc = "write"
    /\ write_idx <= Len(file_contents)
    /\ LET entry == file_contents[write_idx]
       IN  /\ files' =
                 IF outcome = "ok"
                 THEN [files EXCEPT
                          ![entry.file_path] = translated_content(entry.chunks)]
                 ELSE IF outcome = "write_error"
                      THEN [files EXCEPT ![entry.file_path] = <<>>]
                      ELSE files
           /\ rewritten' =
                 IF outcome = "ok" THEN rewritten \cup {entry.file_path}
                 ELSE rewritten
           \* line 268: open(file_path, 'w') went through
           /\ writes' =
                 IF outcome \in {"ok", "write_error"}
                 THEN [writes EXCEPT ![entry.file_path] = @ + 1]
                 ELSE writes
    /\ write_idx' = write_idx + 1
    /\ pc' = IF write_idx = Len(file_contents) THEN "done" ELSE "write"
    /\ UNCHANGED <<originals, walked, read_lines, file_line_chunks,
                   total_chunks, completed_chunks, jobs, out_of_order,
                   file_contents, max_parallel_tasks,
                   tree, sources, io_errors>>

----------------------------------------------------------------------------
(* The specification of a translation run *)

ChunkerIdle ==
    /\ cl_lines = <<>>
    /\ cl_lines_per_chunk = 1
    /\ cl_chunks = <<>>
    /\ cl_pc = "idle"

Init ==
    /\ ChunkerIdle
    /\ GuardIdle
    /\ MainIdle
    /\ DriverIdle
    /\ pc = "walk"
    /\ tree \in Walks
    /\ \E n \in [Docs -> 0..MaxDocLines] :
          /\ \A d \in Docs :
                n[d] \in (IF d \in tree THEN DocSizes(d) ELSE {0})
          /\ files = [d \in Docs |-> DocText(d, n[d])]
    /\ sources = files
    /\ originals = [d \in Docs |->
                       IF d = "a.tex" /\ SnapshotName \in tree
                       THEN FileOf(StaleText) ELSE NoFile]
    /\ io_errors = {}
    /\ writes = [d \in Docs |-> 0]
    /\ walked = {}
    /\ read_lines \in 1..MaxReadLines
    /\ file_line_chunks = <<>>
    /\ total_chunks = 0
    /\ completed_chunks = 0
    /\ jobs = <<>>
    /\ out_of_order = {}
    /\ file_contents = <<>>
    /\ write_idx = 0
    /\ rewritten = {}
    /\ max_parallel_tasks \in PoolWidths

\* a step of the translation run leaves the other machines alone
PipeOnly == UNCHANGED <<chunkVars, guardVars, mainVars, driverVars>>

Next ==
    \/ \E d \in tree, outcome \in DiscoverOutcomes :
          Discover(d, outcome) /\ PipeOnly
    \/ Dispatch /\ PipeOnly
    \/ \E j \in JobIds : StartJob(j) /\ PipeOnly
    \/ \E j \in JobIds, response \in Responses :
          Attempt(j, response) /\ PipeOnly
    \/ \E j \in JobIds : LoadCounter(j) /\ PipeOnly
    \/ \E j \in JobIds : StoreCounter(j) /\ PipeOnly
    \/ Collect /\ PipeOnly
    \/ \E outcome \in WriteOutcomes : WriteFile(outcome) /\ PipeOnly

Spec == Init /\ [][Next]_vars

----------------------------------------------------------------------------
(* What the claims speak of *)

JobsOfDoc(d) == {j \in JobIds : file_line_chunks[j].file_path = d}

NumChunks(d) == Cardinality(JobsOfDoc(d))

\* the job of chunk i (from 0) of document d
JobAt(d, i) == CHOOSE j \in JobsOfDoc(d) : file_line_chunks[j].idx = i

\* translate_chunk has its translated_text
HasText(j) == jobs[j].st \in {"load", "store", "done"}

\* the part of the text at d's path where chunk i lies, given the lengths of
\* the result texts of the chunks before it
PieceAt(d, i) ==
    LET before == Len(Flatten([k \in 1..i |-> jobs[JobAt(d, k - 1)].text]))
    IN  SubSeq(files[d], before + 1, before + Len(jobs[JobAt(d, i)].text))

\* C1 Fidelity gate: translate_text returns a translation only when the
\* response has exactly as many lines as the chunk; a response of another
\* line count is returned on no attempt, and is no part of a rewritten
\* document.
C1_FidelityGate ==
    /\ \A j \in JobIds :
          jobs[j].ok =>
             /\ Len(jobs[j].lines) = Len(file_line_chunks[j].chunk)
             /\ jobs[j].text = Flatten(jobs[j].lines)
    /\ \A d \in rewritten : \A j \in JobsOfDoc(d) :
          \/ /\ jobs[j].ok
             /\ Len(jobs[j].lines) = Len(file_line_chunks[j].chunk)
             /\ PieceAt(d, file_line_chunks[j].idx) = Flatten(jobs[j].lines)
          \/ /\ ~jobs[j].ok
             /\ PieceAt(d, file_line_chunks[j].idx)
                   = Flatten(file_line_chunks[j].chunk)

\* every response of the job had a wrong line count, the last one too, and
\* translate_text raised
C1_Witness ==
    \E j \in JobIds :
        /\ jobs[j].st = "load"
        /\ ~jobs[j].ok
        /\ jobs[j].sleeps = 3
        /\ jobs[j].lines = <<>>

\* C2 Order-independent dispatch, order-preserving merge: whatever the order
\* in which the jobs end, the text written to a document's path is the
\* concatenation of the result texts of its own chunks in ascending chunk
\* index, no chunk missing or twice, none of another document.
C2_OrderPreservingMerge ==
    \A d \in rewritten :
        /\ \A i \in 0..(NumChunks(d) - 1) :
              Cardinality({j \in JobsOfDoc(d) :
                              file_line_chunks[j].idx = i}) = 1
        /\ Flatten([i \in 1..NumChunks(d) |->
                       file_line_chunks[JobAt(d, i - 1)].chunk])
              = readlines(originals[d].text)
        /\ files[d] = Flatten([i \in 1..NumChunks(d) |->
                                  jobs[JobAt(d, i - 1)].text])

\* both documents are rewritten, chunk 1 of a.tex ended before chunk 0, and
\* the two result texts differ
C2_Witness ==
    /\ pc = "done"
    /\ rewritten = Docs
    /\ "a.tex" \in out_of_order
    /\ NumChunks("a.tex") = 2
    /\ jobs[JobAt("a.tex", 0)].text # jobs[JobAt("a.tex", 1)].text
    /\ jobs[JobAt("a.tex", 0)].ok

\* C4 Fallback on exhaustion: when every attempt for a chunk failed, the
\* result text of the job is the concatenation of the chunk's original
\* lines, and a rewritten document holds those lines at the chunk's place,
\* never an empty or cut text.
C4_FallbackOnExhaustion ==
    /\ \A j \in JobIds :
          (HasText(j) /\ ~jobs[j].ok) =>
             /\ jobs[j].text = Flatten(file_line_chunks[j].chunk)
             /\ jobs[j].text # <<>>
    /\ \A d \in rewritten : \A j \in JobsOfDoc(d) :
          ~jobs[j].ok =>
             PieceAt(d, file_line_chunks[j].idx)
                = Flatten(file_line_chunks[j].chunk)

\* a rewritten document whose chunk 1 fell back after chunk 0 was translated
C4_Witness ==
    /\ pc = "done"
    /\ \E d \in rewritten :
          /\ NumChunks(d) = 2
          /\ jobs[JobAt(d, 0)].ok
          /\ ~jobs[JobAt(d, 1)].ok

\* C5 Progress counter is race-free: each finished job raises the shared
\* count by exactly one, so the count is the number of finished jobs, and
\* the size of the pool once every job has finished.
C5_CounterCountsFinishedJobs ==
    pc \in {"pool", "write", "done"} =>
        completed_chunks = Cardinality({j \in JobIds : jobs[j].st = "done"})

\* C6 Bounded retry: after each failed attempt a further one starts until
\* one is accepted or 3 were made; at most 3 remote calls per chunk, none
\* after an accepted response, and the failure is signalled exactly when
\* all 3 attempts failed.
C6_BoundedRetry ==
    \A j \in JobIds :
        /\ jobs[j].calls <= 3
        /\ jobs[j].st = "translate" =>
              \* every call so far failed, fewer than 3 were made, and the
              \* next one can start
              /\ jobs[j].fails = jobs[j].calls
              /\ jobs[j].calls < 3
              /\ ~jobs[j].ok
              /\ ENABLED (\E r \in Responses : Attempt(j, r))
        /\ jobs[j].st \in {"load", "raised"} =>
              \* translate_text has ended: by an accepted response, which
              \* was the last call, or by the failure after 3 failed calls
              /\ ~(\E r \in Responses : ENABLED Attempt(j, r))
              /\ jobs[j].ok => jobs[j].calls = jobs[j].fails + 1
              /\ ~jobs[j].ok <=> jobs[j].fails = 3
              /\ ~jobs[j].ok => jobs[j].calls = 3

\* accepted at the third call, after a service error and a wrong line count
C6_Witness ==
    \E j \in JobIds :
        /\ jobs[j].st = "load"
        /\ jobs[j].ok
        /\ jobs[j].calls = 3
        /\ jobs[j].fails = 2
        /\ jobs[j].sleeps = 1

\* one more step of job j
JobStep(j) ==
    \/ StartJob(j)
    \/ \E r \in Responses : Attempt(j, r)
    \/ LoadCounter(j)
    \/ StoreCounter(j)

\* C7 Failure isolation: whichever jobs fail after their retries, no other
\* job is cancelled or blocked, each runs to its end, its accepted
\* translation is in the rewritten document, and the run reaches reassembly
\* and ends without raising.
C7_FailureIsolation ==
    /\ pc # "raised"
    /\ \A j \in JobIds : jobs[j].st # "raised"
    /\ pc = "pool" =>
          /\ \A j \in Running : ENABLED JobStep(j)
          /\ \A j \in JobIds :
                (/\ jobs[j].st = "queued"
                 /\ \A k \in JobIds : k < j => jobs[k].st # "queued"
                 /\ Cardinality(Running) < max_parallel_tasks)
                => ENABLED StartJob(j)
          /\ (\A j \in JobIds : jobs[j].st = "done") => ENABLED Collect
    /\ pc \in {"write", "done"} => \A j \in JobIds : jobs[j].st = "done"
    /\ \A d \in rewritten : \A j \in JobsOfDoc(d) :
          jobs[j].ok =>
             PieceAt(d, file_line_chunks[j].idx) = Flatten(jobs[j].lines)

\* the run has ended with both documents rewritten although the first job
\* of the pool failed: the jobs after it were translated
C7_Witness ==
    /\ pc = "done"
    /\ rewritten = Docs
    /\ Len(file_line_chunks) = 3
    /\ ~jobs[1].ok
    /\ jobs[2].ok
    /\ jobs[3].ok

----------------------------------------------------------------------------
(* remove_latex_commands, src/script.py:25-30, on the text translate_text  *)
(* sends (line 38), and what lines 116-125 make of the response.           *)
(* A text is a sequence over GuardChars: "BS" is a backslash, "BEGIN" the  *)
(* characters begin{CJK*}{..}{..} that the pattern of line 27 matches      *)
(* after a backslash, "END" the characters end{CJK*} of line 28, "a" any   *)
(* other character.                                                        *)

GuardChars == {"a", "BS", "BEGIN", "END"}

\* longest text handed to remove_latex_commands in SpecGuard
MaxGuardLen == 4

RECURSIVE RemoveCommand(_, _)
\* re.sub(pattern, '', text) for the pattern backslash + command: every
\* match, leftmost first, is deleted
RemoveCommand(text, command) ==
    IF Len(text) < 2 THEN text
    ELSE IF text[1] = "BS" /\ text[2] = command
         THEN RemoveCommand(SubSeq(text, 3, Len(text)), command)
         ELSE <<text[1]>> \o RemoveCommand(Tail(text), command)

RemoveBeginOnly(text) == RemoveCommand(text, "BEGIN")

\* lines 27-28: the \begin{CJK*}{..}{..} commands are deleted, then the
\* \end{CJK*} commands
remove_latex_commands(text) ==
    RemoveCommand(RemoveCommand(text, "BEGIN"), "END")

\* line 125: the lines of the response are joined as they are
JoinResponse(translation_lines) == Flatten(translation_lines)

GuardInit ==
    /\ ChunkerIdle
    /\ PipeIdle
    /\ MainIdle
    /\ DriverIdle
    /\ g_text \in SeqsUpTo(GuardChars, MaxGuardLen)
    /\ g_cleaned = <<>>
    /\ g_restored = <<>>
    /\ g_pc = "call"

\* line 38: the text is cleaned and sent
GuardClean ==
    /\ g_pc = "call"
    /\ g_cleaned' = remove_latex_commands(g_text)
    /\ g_pc' = "sent"
    /\ UNCHANGED <<g_text, g_restored>>

\* lines 116-125, for a transformer that answers the text it was sent, cut
\* into two lines at any place
GuardRestore(cut) ==
    /\ g_pc = "sent"
    /\ g_restored' = JoinResponse(<<SubSeq(g_cleaned, 1, cut),
                                    SubSeq(g_cleaned, cut + 1, Len(g_cleaned))>>)
    /\ g_pc' = "restored"
    /\ UNCHANGED <<g_text, g_cleaned>>

GuardOnly == UNCHANGED <<chunkVars, pipeVars, mainVars, driverVars>>

GuardNext ==
    \/ GuardClean /\ GuardOnly
    \/ \E cut \in 0..Len(g_cleaned) : GuardRestore(cut) /\ GuardOnly

SpecGuard == GuardInit /\ [][GuardNext]_vars

\* a pattern of line 27 or 28 matches in the text
HasCJKCommand(text) ==
    \E i \in 1..(Len(text) - 1) :
        text[i] = "BS" /\ text[i + 1] \in {"BEGIN", "END"}

----------------------------------------------------------------------------
(* find_main_tex_file, src/script.py:320-356 *)

\* what the function looks for in the contents of a file
MainKeywords == {"begin_document", "usepackage", "title", "author"}

\* the contents a file of the tree can have: an include fragment, a style
\* fragment, a file with only the document class, and two root files
FileContents ==
    { {},
      {"usepackage"},
      {"documentclass"},
      {"documentclass", "title", "begin_document"},
      {"documentclass", "author"} }

\* most files in the tree given to find_main_tex_file
MaxTexFiles == 3
\* largest size of a file, in bytes
MaxFileSize == 2

\* a file of the walk: whether its name ends in ".tex" and holds no
\* "_original" (line 327), what it contains, whether it can be read as
\* UTF-8 (lines 333-334 raise if not), and its size
TexFiles ==
    [tex_name : {TRUE}, contents : FileContents, readable : BOOLEAN,
     size : 1..MaxFileSize]
    \cup [tex_name : {FALSE},
          contents : {{"documentclass", "title", "begin_document"}},
          readable : {TRUE}, size : {MaxFileSize}]

\* lines 324-328: the positions in the walk of the candidate files
candidate_files(walk) ==
    SelectSeq([i \in DOMAIN walk |-> i], LAMBDA i : walk[i].tex_name)

IsMainCandidateClassOnly(file) ==
    file.readable /\ "documentclass" \in file.contents

\* lines 332-342: the file is read, holds \documentclass and one of the
\* keywords
IsMainCandidate(file) ==
    /\ file.readable
    /\ "documentclass" \in file.contents
    /\ file.contents \cap MainKeywords # {}

\* lines 330-342
main_candidates(walk) ==
    SelectSeq(candidate_files(walk), LAMBDA i : IsMainCandidate(walk[i]))

FirstCandidate(walk, candidates, best) == best

RECURSIVE MaxBySize(_, _, _)
\* line 351, max(candidate_files, key=os.path.getsize): the first of the
\* largest
MaxBySize(walk, candidates, best) ==
    IF candidates = <<>> THEN best
    ELSE IF walk[Head(candidates)].size > walk[best].size
         THEN MaxBySize(walk, Tail(candidates), Head(candidates))
         ELSE MaxBySize(walk, Tail(candidates), best)

\* the position in the walk of the file returned, 0 for None
find_main_tex_file(walk) ==
    IF main_candidates(walk) # <<>>
    THEN main_candidates(walk)[1]
    ELSE IF candidate_files(walk) # <<>>
         THEN MaxBySize(walk, Tail(candidate_files(walk)),
                        Head(candidate_files(walk)))
         ELSE 0

MainInit ==
    /\ ChunkerIdle
    /\ PipeIdle
    /\ GuardIdle
    /\ DriverIdle
    /\ fm_walk \in SeqsUpTo(TexFiles, MaxTexFiles)
    /\ fm_result = 0
    /\ fm_pc = "call"

FindMain ==
    /\ fm_pc = "call"
    /\ fm_result' = find_main_tex_file(fm_walk)
    /\ fm_pc' = "returned"
    /\ UNCHANGED fm_walk
    /\ UNCHANGED <<chunkVars, pipeVars, guardVars, driverVars>>

MainNext == FindMain

SpecMain == MainInit /\ [][MainNext]_vars

\* the file holds a document class and one of the four keywords
SatisfiesBoth(file) ==
    /\ "documentclass" \in file.contents
    /\ file.contents \cap MainKeywords # {}

HoldsClass(file) == file.tex_name /\ "documentclass" \in file.contents

\* position i holds a largest candidate of the walk
LargestCandidate(walk, i) ==
    /\ i \in DOMAIN walk
    /\ walk[i].tex_name
    /\ \A k \in DOMAIN walk : walk[k].tex_name => walk[k].size <= walk[i].size

\* C11 Main-file fallback chain, as the spec states it: when no candidate
\* satisfies both conditions but one holds a document class, a candidate
\* that holds a document class is returned, even if another is larger; the
\* largest candidate is returned only when none holds a document class.
C11_FallbackChain ==
    fm_pc = "returned" =>
        LET both  == \E i \in DOMAIN fm_walk :
                        fm_walk[i].tex_name /\ SatisfiesBoth(fm_walk[i])
            class == \E i \in DOMAIN fm_walk : HoldsClass(fm_walk[i])
            any   == \E i \in DOMAIN fm_walk : fm_walk[i].tex_name
        IN  /\ (~both /\ class) =>
                  /\ fm_result \in DOMAIN fm_walk
                  /\ HoldsClass(fm_walk[fm_result])
            /\ (~class /\ any) => LargestCandidate(fm_walk, fm_result)

\* C11 as amended: when no candidate that can be read satisfies both
\* conditions, the file returned is the largest candidate by size, the first
\* of the largest in walk order, whether or not a candidate holds a document
\* class.
C11_FallbackBySize ==
    fm_pc = "returned" =>
        ((/\ \E i \in DOMAIN fm_walk : fm_walk[i].tex_name
          /\ ~\E i \in DOMAIN fm_walk :
                /\ fm_walk[i].tex_name
                /\ fm_walk[i].readable
                /\ SatisfiesBoth(fm_walk[i]))
         => /\ LargestCandidate(fm_walk, fm_result)
            /\ \A k \in 1..(fm_result - 1) :
                  fm_walk[k].tex_name => fm_walk[k].size < fm_walk[fm_result].size)

\* a file with only the document class comes first, a larger fragment
\* second: the fragment is returned
C11_Witness ==
    /\ fm_pc = "returned"
    /\ Len(fm_walk) = 2
    /\ fm_walk[1].contents = {"documentclass"}
    /\ fm_walk[1].readable
    /\ fm_walk[2].contents = {}
    /\ \A i \in 1..2 : fm_walk[i].tex_name
    /\ fm_walk[2].size > fm_walk[1].size
    /\ fm_result = 2

----------------------------------------------------------------------------
(* Files, snapshots and errors of a translation run *)

\* the snapshots the tree holds before the run
InitialOriginals ==
    [d \in Docs |-> IF d = "a.tex" /\ SnapshotName \in tree
                    THEN FileOf(StaleText) ELSE NoFile]

\* the documents that have a chunk in the job pool
Pooled == {file_line_chunks[i].file_path : i \in DOMAIN file_line_chunks}

\* C14 Per-file I/O error tolerance, as the spec states it: a document for
\* which a step of discovery raised (the read, the snapshot, the write back)
\* has no chunk in the job pool and is never replaced by translated text.
C14_PerFileErrorTolerance ==
    \A d \in io_errors :
        /\ d \notin Pooled
        /\ d \notin rewritten

\* C15 Zero-work no-op: with no eligible document in the directory the run
\* returns normally, no job dispatched, the transformer not called, no file
\* written; with no chunk in the job pool it returns with no job dispatched
\* and nothing raised.
C15_ZeroWorkNoOp ==
    /\ (pc # "walk" /\ Eligible(tree) = {}) =>
          /\ pc = "done"
          /\ jobs = <<>>
          /\ files = sources
          /\ originals = InitialOriginals
          /\ \A d \in Docs : writes[d] = 0
    /\ (pc # "walk" /\ total_chunks = 0) =>
          /\ pc = "done"
          /\ jobs = <<>>
          /\ rewritten = {}

\* the directory holds one file, which does not end in ".tex", and the run
\* has returned
C15_Witness ==
    /\ pc = "done"
    /\ tree = {SnapshotName}
    /\ total_chunks = 0

C19_BackoffBetweenAttempts ==
    \A j \in JobIds :
        jobs[j].st = "translate" => jobs[j].sleeps = jobs[j].attempt

\* C20 Rewritten exactly once, as the spec states it: a document's path is
\* not written before reassembly, and a rewritten document has been written
\* once when the run ends.
C20_RewrittenExactlyOnce ==
    \A d \in Docs :
        /\ pc \in {"walk", "pool"} => writes[d] = 0
        /\ (pc = "done" /\ d \in rewritten) => writes[d] = 1

----------------------------------------------------------------------------
(* download_arxiv_intro_and_tex, src/script.py:400-453, with                *)
(* compile_main_tex, 359-368, and compile_tex_to_pdf, 370-397               *)

\* most files in the directory of a run in SpecDriver
MaxDriverFiles == 2

\* the files of the directory when the main file is sought: a fragment and
\* a root file, each readable or not, and a snapshot
DriverFiles ==
    {f \in TexFiles :
        /\ f.contents \in {{}, {"documentclass", "title", "begin_document"}}
        /\ f.tex_name => f.size = 1}

SetupErrorSwallowed == FALSE

\* lines 412, 418 and 440: the error is raised again
SetupErrorRaises == TRUE

MainFoundAlways(path) == TRUE

\* line 364, `if main_tex_path`: find_main_tex_file did not return None
MainFound(path) == path # 0

PassesSwapped(twice) == IF twice THEN 1 ELSE 2

\* line 378: range(2 if compile_twice else 1)
Passes(twice) == IF twice THEN 2 ELSE 1

OutputExistsAlways(last) == TRUE

\* line 388: os.path.exists(output_pdf)
OutputExists(last) == last.pdf

\* the compiler runs made so far
NumPasses == Cardinality({i \in DOMAIN stages : stages[i] = "xelatex"})

DriverInit ==
    /\ ChunkerIdle
    /\ PipeIdle
    /\ GuardIdle
    /\ MainIdle
    /\ entry_point \in {"download_arxiv_intro_and_tex", "compile_tex_to_pdf"}
    /\ IF entry_point = "download_arxiv_intro_and_tex"
       THEN /\ run_pc = "fetch"
            /\ directory \in SeqsUpTo(DriverFiles, MaxDriverFiles)
            /\ compile_twice = TRUE
            /\ main_tex_path = 0
       ELSE \* compile_tex_to_pdf(tex_file_path, arxiv_id, compile_twice)
            /\ run_pc = "compile"
            /\ directory \in [1..1 -> {f \in DriverFiles : f.tex_name}]
            /\ compile_twice \in BOOLEAN
            /\ main_tex_path = 1
    /\ stages = <<>>
    /\ result = [returncode |-> 0, pdf |-> FALSE]
    /\ final_pdf = FALSE
    /\ logged = {}

\* lines 405-412: requests.get and raise_for_status
FetchMetadata(outcome) ==
    /\ run_pc = "fetch"
    /\ IF outcome = "ok"
       THEN /\ stages' = Append(stages, "metadata_fetched")
            /\ run_pc' = "entry"
            /\ UNCHANGED logged
       ELSE /\ logged' = logged \cup {"metadata"}
            /\ run_pc' = IF SetupErrorRaises THEN "raised" ELSE "entry"
            /\ UNCHANGED stages
    /\ UNCHANGED <<entry_point, directory, main_tex_path, compile_twice,
                   result, final_pdf>>

\* lines 414-424: the entry of the feed, its title and its summary
FindEntry(outcome) ==
    /\ run_pc = "entry"
    /\ IF outcome = "found"
       THEN /\ stages' = Append(stages, "entry_found")
            /\ run_pc' = "download"
            /\ UNCHANGED logged
       ELSE IF outcome = "missing"
            THEN /\ logged' = logged \cup {"no_entry"}
                 /\ run_pc' = IF SetupErrorRaises THEN "raised" ELSE "download"
                 /\ UNCHANGED stages
            ELSE \* entry.find('title') is None: line 421 raises
                 /\ run_pc' = "raised"
                 /\ UNCHANGED <<stages, logged>>
    /\ UNCHANGED <<entry_point, directory, main_tex_path, compile_twice,
                   result, final_pdf>>

\* lines 426-440: the archive is downloaded; an error of requests is logged
\* and raised again, another one (makedirs, open) goes up as it is
DownloadTarball(outcome) ==
    /\ run_pc = "download"
    /\ IF outcome = "ok"
       THEN /\ stages' = Append(stages, "downloaded")
            /\ run_pc' = "extract"
            /\ UNCHANGED logged
       ELSE IF outcome = "request_error"
            THEN /\ logged' = logged \cup {"tarball"}
                 /\ run_pc' = IF SetupErrorRaises THEN "raised" ELSE "extract"
                 /\ UNCHANGED stages
            ELSE /\ run_pc' = "raised"
                 /\ UNCHANGED <<stages, logged>>
    /\ UNCHANGED <<entry_point, directory, main_tex_path, compile_twice,
                   result, final_pdf>>

\* lines 442-451, with extract_tar_gz, 309-319
Extract(outcome) ==
    /\ run_pc = "extract"
    /\ IF outcome = "ok"
       THEN /\ stages' = Append(stages, "extracted")
            /\ run_pc' = "translate"
            /\ UNCHANGED logged
       ELSE /\ logged' = logged \cup {"extract"}
            /\ run_pc' = "raised"
            /\ UNCHANGED stages
    /\ UNCHANGED <<entry_point, directory, main_tex_path, compile_twice,
                   result, final_pdf>>

\* line 452: process_and_translate_tex_files returns (Spec is its model)
Translate ==
    /\ run_pc = "translate"
    /\ stages' = Append(stages, "translated")
    /\ run_pc' = "select"
    /\ UNCHANGED <<entry_point, directory, main_tex_path, compile_twice,
                   result, final_pdf, logged>>

\* lines 453 and 361-368: the main file is sought; without one the error is
\* logged and compile_main_tex returns
SelectMain ==
    /\ run_pc = "select"
    /\ main_tex_path' = find_main_tex_file(directory)
    /\ IF MainFound(main_tex_path')
       THEN /\ stages' = Append(stages, "main_selected")
            /\ run_pc' = "inject"
            /\ UNCHANGED logged
       ELSE /\ logged' = logged \cup {"main_not_found"}
            /\ run_pc' = "returned"
            /\ UNCHANGED stages
    /\ UNCHANGED <<entry_point, directory, compile_twice, result, final_pdf>>

\* line 365, add_custom_font_to_tex, 134-157: the file is read and written
\* twice; an error is logged and raised again
Inject(outcome) ==
    /\ run_pc = "inject"
    /\ IF outcome = "ok"
       THEN /\ main_tex_path \in DOMAIN directory
            /\ directory[main_tex_path].readable
            /\ stages' = Append(stages, "injected")
            /\ run_pc' = "compile"
            /\ UNCHANGED logged
       ELSE /\ logged' = logged \cup {"font"}
            /\ run_pc' = "raised"
            /\ UNCHANGED stages
    /\ UNCHANGED <<entry_point, directory, main_tex_path, compile_twice,
                   result, final_pdf>>

\* lines 378-385: one run of xelatex; subprocess.run raises when it cannot
\* start the compiler (lines 395-397), else the exit status is whatever it
\* is and the output file is there or not
CompilePass(launched, returncode, pdf) ==
    /\ run_pc = "compile"
    /\ IF launched
       THEN /\ stages' = Append(stages, "xelatex")
            /\ result' = [returncode |-> returncode, pdf |-> pdf]
            /\ run_pc' = IF NumPasses + 1 >= Passes(compile_twice)
                         THEN "output" ELSE "compile"
            /\ UNCHANGED logged
       ELSE /\ returncode = 0
            /\ pdf = FALSE
            /\ logged' = logged \cup {"compile"}
            /\ run_pc' = "raised"
            /\ UNCHANGED <<stages, result>>
    /\ UNCHANGED <<entry_point, directory, main_tex_path, compile_twice,
                   final_pdf>>

\* lines 387-397: the output file, if it exists, is renamed, else the error
\* is logged; an error of os.rename is logged and raised again
CheckOutput(outcome) ==
    /\ run_pc = "output"
    /\ IF OutputExists(result)
       THEN IF outcome = "ok"
            THEN /\ stages' = Append(stages, "relocated")
                 /\ final_pdf' = TRUE
                 /\ run_pc' = "returned"
                 /\ UNCHANGED logged
            ELSE /\ logged' = logged \cup {"compile"}
                 /\ run_pc' = "raised"
                 /\ UNCHANGED <<stages, final_pdf>>
       ELSE /\ outcome = "ok"
            /\ logged' = logged \cup {"pdf_not_found"}
            /\ run_pc' = "returned"
            /\ UNCHANGED <<stages, final_pdf>>
    /\ UNCHANGED <<entry_point, directory, main_tex_path, compile_twice,
                   result>>

DriverOnly == UNCHANGED <<chunkVars, pipeVars, guardVars, mainVars>>

DriverNext ==
    \/ \E outcome \in {"ok", "request_error", "http_error"} :
          FetchMetadata(outcome) /\ DriverOnly
    \/ \E outcome \in {"found", "missing", "field_missing"} :
          FindEntry(outcome) /\ DriverOnly
    \/ \E outcome \in {"ok", "request_error", "os_error"} :
          DownloadTarball(outcome) /\ DriverOnly
    \/ \E outcome \in {"ok", "error"} : Extract(outcome) /\ DriverOnly
    \/ Translate /\ DriverOnly
    \/ SelectMain /\ DriverOnly
    \/ \E outcome \in {"ok", "error"} : Inject(outcome) /\ DriverOnly
    \/ \E launched \in BOOLEAN, returncode \in {0, 1}, pdf \in BOOLEAN :
          CompilePass(launched, returncode, pdf) /\ DriverOnly
    \/ \E outcome \in {"ok", "rename_error"} :
          CheckOutput(outcome) /\ DriverOnly

SpecDriver == DriverInit /\ [][DriverNext]_vars

\* the passes compile_tex_to_pdf was asked for
PassesWanted == IF compile_twice THEN 2 ELSE 1

\* the stages after the setup of a run
LaterStages ==
    {"extracted", "translated", "main_selected", "injected", "xelatex",
     "relocated"}

\* the place of each stage in the order of a run
StageRank ==
    [stage \in {"metadata_fetched", "entry_found", "downloaded"}
                  \cup LaterStages |->
        CASE stage = "metadata_fetched" -> 1
          [] stage = "entry_found"      -> 2
          [] stage = "downloaded"       -> 3
          [] stage = "extracted"        -> 4
          [] stage = "translated"       -> 5
          [] stage = "main_selected"    -> 6
          [] stage = "injected"         -> 7
          [] stage = "xelatex"          -> 8
          [] stage = "relocated"        -> 9]

\* compile_main_tex has looked for the main file
MainSought ==
    /\ entry_point = "download_arxiv_intro_and_tex"
    /\ \E i \in DOMAIN stages : stages[i] = "translated"
    /\ run_pc # "select"

\* compile_tex_to_pdf made its last pass and has ended
CompileEnded ==
    /\ run_pc \in {"returned", "raised"}
    /\ NumPasses = PassesWanted

\* C12 No main file, no compilation: when the directory holds no candidate
\* file, compile_main_tex logs that the main file was not found and returns,
\* with no typesetting injection, no compiler run and no artifact.
C12_NoMainNoCompilation ==
    (MainSought /\ candidate_files(directory) = <<>>) =>
        /\ run_pc = "returned"
        /\ main_tex_path = 0
        /\ "main_not_found" \in logged
        /\ \A i \in DOMAIN stages :
              stages[i] \notin {"main_selected", "injected", "xelatex",
                                "relocated"}
        /\ ~final_pdf

\* the directory holds two files, neither of them a candidate
C12_Witness ==
    /\ MainSought
    /\ Len(directory) = 2
    /\ \A i \in DOMAIN directory : ~directory[i].tex_name
    /\ run_pc = "returned"

\* C13 Compilation failure is reported, as the spec states it: after a last
\* pass that ended with a non-zero exit status, or without the expected
\* output file, a failure is logged, no artifact is at the final name and
\* nothing was raised.
C13_CompilationFailureReported ==
    (CompileEnded /\ (result.returncode # 0 \/ ~result.pdf)) =>
        /\ run_pc = "returned"
        /\ logged \cap {"pdf_not_found", "compile"} # {}
        /\ ~final_pdf

\* C13 as amended: when the expected output file is missing after the last
\* pass, the failure is logged, no artifact is at the final name and the
\* function returns; the exit status is not looked at, and an output file
\* that exists is relocated whatever it is.
C13_MissingOutputReported ==
    CompileEnded =>
        /\ ~result.pdf =>
              /\ run_pc = "returned"
              /\ "pdf_not_found" \in logged
              /\ ~final_pdf
              /\ \A i \in DOMAIN stages : stages[i] # "relocated"
        /\ (result.pdf /\ run_pc = "returned") =>
              /\ final_pdf
              /\ "pdf_not_found" \notin logged

\* both passes of a run ended with a non-zero exit status and left no output
C13_Witness ==
    /\ CompileEnded
    /\ entry_point = "download_arxiv_intro_and_tex"
    /\ NumPasses = 2
    /\ result = [returncode |-> 1, pdf |-> FALSE]
    /\ run_pc = "returned"

\* C16 Setup errors abort the run: after a failed metadata fetch, a feed
\* without entry or a failed download of the archive the run has raised, and
\* no extraction, translation, selection, injection, compiler run or
\* relocation has happened; these happen only after all three succeeded.
C16_SetupErrorsAbort ==
    /\ logged \cap {"metadata", "no_entry", "tarball"} # {} =>
          /\ run_pc = "raised"
          /\ \A i \in DOMAIN stages : stages[i] \notin LaterStages
          /\ ~final_pdf
    /\ (/\ entry_point = "download_arxiv_intro_and_tex"
        /\ \E i \in DOMAIN stages : stages[i] \in LaterStages) =>
          /\ Len(stages) >= 3
          /\ SubSeq(stages, 1, 3)
                = <<"metadata_fetched", "entry_found", "downloaded">>

\* the download of the archive failed after the metadata was read
C16_Witness ==
    /\ run_pc = "raised"
    /\ "tarball" \in logged
    /\ stages = <<"metadata_fetched", "entry_found">>
    /\ Len(directory) = 2

\* C18 Compilation driver ordering: the stages follow one another in the
\* order selected, injected, compiled, relocated; the compiler is run twice,
\* or once when a single pass was asked for, and in a run of the driver not
\* before the injection; the artifact is relocated only after the last pass
\* and only if the output file exists then.
C18_DriverOrdering ==
    /\ \A i, k \in DOMAIN stages :
          i < k =>
             \/ StageRank[stages[i]] < StageRank[stages[k]]
             \/ stages[i] = "xelatex" /\ stages[k] = "xelatex"
    /\ entry_point = "download_arxiv_intro_and_tex" =>
          /\ \A k \in DOMAIN stages :
                stages[k] = "xelatex" =>
                   \E i \in 1..(k - 1) : stages[i] = "injected"
          /\ \A k \in DOMAIN stages :
                stages[k] = "injected" =>
                   \E i \in 1..(k - 1) : stages[i] = "main_selected"
    /\ NumPasses <= (IF compile_twice THEN 2 ELSE 1)
    /\ (run_pc = "output" \/ "pdf_not_found" \in logged \/ final_pdf) =>
          NumPasses = (IF compile_twice THEN 2 ELSE 1)
    /\ final_pdf <=> (\E i \in DOMAIN stages : stages[i] = "relocated")
    /\ final_pdf =>
          /\ stages[Len(stages)] = "relocated"
          /\ result.pdf

\* a whole run: every stage once, the compiler twice, the artifact relocated
C18_Witness ==
    /\ run_pc = "returned"
    /\ final_pdf
    /\ stages = <<"metadata_fetched", "entry_found", "downloaded",
                  "extracted", "translated", "main_selected", "injected",
                  "xelatex", "xelatex", "relocated">>

====
